---- MODULE Spec2Model ----
(***************************************************************************)
(* Model of the shopping-cart state machine of the marketplace frontend:   *)
(* cartReducer and initialCartState of frontend/src/context/CartContext.jsx *)
(*                                                                         *)
(* JavaScript values are records [t, s, h]:                                *)
(*   t = typeof-like tag ("string", "number", "undefined", "null"),        *)
(*   s = the characters of a string, or the kind of a number               *)
(*       ("fin" finite, "inf" infinite, "nan" NaN),                        *)
(*   h = for a finite number its value counted in HALVES (h = 5 is 2.5),   *)
(*       for an infinite number its sign.                                  *)
(***************************************************************************)
EXTENDS Integers, Sequences, FiniteSets, TLC

\* ---------------------------------------------------------------- bounds
\* Largest finite quantity an item reaches in the explored state space.
MaxQty == 2
\* The largest number of objects the reducer calls of HeapSpec may have
\* allocated, the two of initialCartState included.
MaxHeap == 14
\* The largest number of fetches of the store page awaiting their response.
MaxFetches == 2
\* The largest number of order requests still awaiting their response whose
\* checkout form has been unmounted.
MaxOrphans == 1

\* ------------------------------------------------------- JavaScript values
Str(chars) == [t |-> "string", s |-> chars, h |-> 0]
Num(halves) == [t |-> "number", s |-> "fin", h |-> halves]
Int2Num(n) == Num(2 * n)
Infinity == [t |-> "number", s |-> "inf", h |-> 1]
NegInfinity == [t |-> "number", s |-> "inf", h |-> -1]
NaN == [t |-> "number", s |-> "nan", h |-> 0]
Undefined == [t |-> "undefined", s |-> "", h |-> 0]
Null == [t |-> "null", s |-> "", h |-> 0]

\* typeof v === 'string'
IsString(v) == v.t = "string"
\* typeof v === 'number'
IsNumber(v) == v.t = "number"
\* !v  (for the value kinds above)
Falsy(v) ==
  \/ v.t \in {"undefined", "null"}
  \/ v.t = "string" /\ v.s = ""
  \/ v.t = "number" /\ (v.s = "nan" \/ (v.s = "fin" /\ v.h = 0))
\* isNaN(v) for a value of type number
IsNaN(v) == v.t = "number" /\ v.s = "nan"
\* v < 0 for a value of type number (false for NaN)
LessThanZero(v) == v.t = "number" /\ v.s # "nan" /\ v.h < 0
\* Variant of LeqZero: the comparison written as v < 0.
LeqZeroStrict(v) == v.t = "number" /\ v.s # "nan" /\ v.h < 0
\* v <= 0 for a value of type number (false for NaN)
LeqZero(v) == v.t = "number" /\ v.s # "nan" /\ v.h <= 0
\* Variant of MathFloor: the quantity is used as given, not floored.
MathFloorOmitted(v) == v
\* Math.floor(v) for a value of type number: the infinities and NaN
\* are returned as they are.
MathFloor(v) == IF v.s = "fin" THEN Num(2 * (v.h \div 2)) ELSE v
\* Variant of PlusOne: the sum is computed and dropped, the quantity kept.
PlusOneDropped(v) == v
\* v + 1 for a value of type number
PlusOne(v) == IF v.s = "fin" THEN Num(v.h + 2) ELSE v
\* Number.isInteger(v)
IsInteger(v) == v.t = "number" /\ v.s = "fin" /\ v.h % 2 = 0
\* The sign of a number that is not NaN: -1, 0 or 1.
Sign(v) == IF v.h > 0 THEN 1 ELSE IF v.h < 0 THEN -1 ELSE 0
\* a * b for numbers of which one, when both are finite, is an integer (so
\* that the product is again a whole number of halves).  Infinity * 0 is NaN.
Times(a, b) ==
  IF a.s = "nan" \/ b.s = "nan" THEN NaN
  ELSE IF a.s = "inf" \/ b.s = "inf"
  THEN IF Sign(a) * Sign(b) = 0 THEN NaN
       ELSE [t |-> "number", s |-> "inf", h |-> Sign(a) * Sign(b)]
  ELSE Num((a.h * b.h) \div 2)
\* a + b for numbers.  Infinity + -Infinity is NaN.
Plus(a, b) ==
  IF a.s = "nan" \/ b.s = "nan" THEN NaN
  ELSE IF a.s = "inf" /\ b.s = "inf"
  THEN IF a.h = b.h THEN a ELSE NaN
  ELSE IF a.s = "inf" THEN a
  ELSE IF b.s = "inf" THEN b
  ELSE Num(a.h + b.h)

\* ------------------------------------------------------------ cart state
initialCartState == [storeId |-> Null, items |-> <<>>]

\* findIndex: 1-based index of the first entry matching productId, 0 if none
\* (JavaScript's -1).
RECURSIVE FindIndexFrom(_, _, _)
FindIndexFrom(items, productId, i) ==
  IF i > Len(items) THEN 0
  ELSE IF items[i].productId = productId THEN i
  ELSE FindIndexFrom(items, productId, i + 1)
\* Variant of FindIndex: the comparison reads a field the payload item does
\* not have (item.id), so it looks for undefined and never matches.
FindIndexNever(items, productId) == FindIndexFrom(items, Undefined, 1)
FindIndex(items, productId) == FindIndexFrom(items, productId, 1)

\* Variant of FilterOut: the test written as ===, keeping the named entries.
FilterOutInverted(items, productId) ==
  SelectSeq(items, LAMBDA it : it.productId = productId)
\* items.filter((item) => item.productId !== productId)
FilterOut(items, productId) ==
  SelectSeq(items, LAMBDA it : it.productId # productId)

\* { ...item, quantity: 1 } for the item of an ADD_ITEM payload.  The entry
\* also carries a history field, addedBy: the storeId of the payload the
\* entry was built from.  The program has no such field; no operator of the
\* reducer reads it.
NewEntry(item, storeId) ==
  [productId |-> item.productId, name |-> item.name,
   price |-> item.price, quantity |-> Int2Num(1), addedBy |-> storeId]

\* { ...cartItem, quantity: q } for an entry of the cart
WithQuantity(cartItem, q) == [cartItem EXCEPT !.quantity = q]

\* The result of one reducer call: the returned state, which object it is
\* ("state": the argument itself, "initialCartState": the shared constant,
\* "new": a freshly built object) and whether the call threw instead.
Returned(st, which) == [state |-> st, ref |-> which, threw |-> FALSE]
Thrown(st) == [state |-> st, ref |-> "state", threw |-> TRUE]

\* const { item, storeId } = action.payload ?? {}  etc.
PayloadField(action, f) ==
  IF action.hasPayload THEN action.payload[f] ELSE Undefined
NoItem == [defined |-> FALSE, productId |-> Undefined,
           name |-> Undefined, price |-> Undefined]
PayloadItem(action) ==
  IF action.hasPayload THEN action.payload.item ELSE NoItem

\* Variant of InvalidAddPayload: the test item.price < 0 is missing.
InvalidAddPayloadNoSign(item, storeId) ==
  \/ ~item.defined
  \/ ~IsString(item.productId) \/ Falsy(item.productId)
  \/ ~IsString(item.name) \/ Falsy(item.name)
  \/ ~IsNumber(item.price) \/ IsNaN(item.price)
  \/ ~IsString(storeId) \/ Falsy(storeId)

\* The validation of an ADD_ITEM payload: TRUE when the payload is rejected.
InvalidAddPayload(item, storeId) ==
  \/ ~item.defined
  \/ ~IsString(item.productId) \/ Falsy(item.productId)
  \/ ~IsString(item.name) \/ Falsy(item.name)
  \/ ~IsNumber(item.price) \/ IsNaN(item.price) \/ LessThanZero(item.price)
  \/ ~IsString(storeId) \/ Falsy(storeId)

\* Variant of ReduceAddItem: on a store switch the new entry is appended to
\* the old cart under the new storeId instead of replacing it.
ReduceAddItemMerging(state, action) ==
  LET item == PayloadItem(action)
      storeId == PayloadField(action, "storeId")
  IN
  IF InvalidAddPayload(item, storeId) THEN Returned(state, "state")
  ELSE IF FindIndex(state.items, item.productId) >= 1
  THEN Returned([storeId |-> storeId,
                 items |-> [index \in 1..Len(state.items) |->
                    IF index = FindIndex(state.items, item.productId)
                    THEN WithQuantity(state.items[index],
                                      PlusOne(state.items[index].quantity))
                    ELSE state.items[index]]], "new")
  ELSE Returned([storeId |-> storeId,
                 items |-> Append(state.items, NewEntry(item, storeId))],
                "new")

\* Variant of ReduceAddItem: the store-switch test is missing, the cart
\* keeps its storeId and the item is merged or appended.
ReduceAddItemNoSwitch(state, action) ==
  LET item == PayloadItem(action)
      storeId == PayloadField(action, "storeId")
  IN
  IF InvalidAddPayload(item, storeId) THEN Returned(state, "state")
  ELSE IF FindIndex(state.items, item.productId) >= 1
  THEN Returned([storeId |-> state.storeId,
                 items |-> [index \in 1..Len(state.items) |->
                    IF index = FindIndex(state.items, item.productId)
                    THEN WithQuantity(state.items[index],
                                      PlusOne(state.items[index].quantity))
                    ELSE state.items[index]]], "new")
  ELSE Returned([storeId |-> IF state.storeId = Null THEN storeId
                             ELSE state.storeId,
                 items |-> Append(state.items, NewEntry(item, storeId))],
                "new")

\* Variant of ReduceAddItem: the entry found is rebuilt from the incoming
\* item, { ...cartItem, ...item, quantity: cartItem.quantity + 1 }.
ReduceAddItemRefreshing(state, action) ==
  LET item == PayloadItem(action)
      storeId == PayloadField(action, "storeId")
  IN
  IF InvalidAddPayload(item, storeId) THEN Returned(state, "state")
  ELSE IF state.storeId # Null /\ state.storeId # storeId
  THEN Returned([storeId |-> storeId,
                 items |-> << NewEntry(item, storeId) >>], "new")
  ELSE
    LET newStoreId == IF state.storeId = Null THEN storeId ELSE state.storeId
        existingItemIndex == FindIndex(state.items, item.productId)
        newItemsArray ==
          IF existingItemIndex >= 1
          THEN [index \in 1..Len(state.items) |->
                  IF index = existingItemIndex
                  THEN [state.items[index] EXCEPT
                          !.name = item.name, !.price = item.price,
                          !.quantity = PlusOne(@)]
                  ELSE state.items[index]]
          ELSE Append(state.items, NewEntry(item, storeId))
    IN Returned([storeId |-> newStoreId, items |-> newItemsArray], "new")

ReduceAddItem(state, action) ==
  LET item == PayloadItem(action)
      storeId == PayloadField(action, "storeId")
  IN
  IF InvalidAddPayload(item, storeId) THEN Returned(state, "state")
  ELSE IF state.storeId # Null /\ state.storeId # storeId
  THEN Returned([storeId |-> storeId,
                 items |-> << NewEntry(item, storeId) >>], "new")
  ELSE
    LET newStoreId == IF state.storeId = Null THEN storeId ELSE state.storeId
        existingItemIndex == FindIndex(state.items, item.productId)
        newItemsArray ==
          IF existingItemIndex >= 1
          THEN [index \in 1..Len(state.items) |->
                  IF index = existingItemIndex
                  THEN WithQuantity(state.items[index],
                                    PlusOne(state.items[index].quantity))
                  ELSE state.items[index]]
          ELSE Append(state.items, NewEntry(item, storeId))
    IN Returned([storeId |-> newStoreId, items |-> newItemsArray], "new")

\* The validation of a REMOVE_ITEM payload: TRUE when rejected.
InvalidRemovePayload(productId) ==
  ~IsString(productId) \/ Falsy(productId)

\* Variant of ReduceRemoveItem: the reset of an emptied cart is missing.
ReduceRemoveItemNoReset(state, action) ==
  LET productId == PayloadField(action, "productId")
      newItems == FilterOut(state.items, productId)
  IN
  IF InvalidRemovePayload(productId) THEN Returned(state, "state")
  ELSE Returned([storeId |-> state.storeId, items |-> newItems], "new")

\* Variant of ReduceRemoveItem: a productId that matches no entry is
\* reported by throwing.
ReduceRemoveItemThrowing(state, action) ==
  LET productId == PayloadField(action, "productId")
      newItems == FilterOut(state.items, productId)
  IN
  IF InvalidRemovePayload(productId) THEN Returned(state, "state")
  ELSE IF Len(newItems) = Len(state.items) THEN Thrown(state)
  ELSE IF Len(newItems) = 0 THEN Returned(initialCartState, "initialCartState")
  ELSE Returned([storeId |-> state.storeId, items |-> newItems], "new")

ReduceRemoveItem(state, action) ==
  LET productId == PayloadField(action, "productId")
      newItems == FilterOut(state.items, productId)
  IN
  IF InvalidRemovePayload(productId) THEN Returned(state, "state")
  ELSE IF Len(newItems) = 0 THEN Returned(initialCartState, "initialCartState")
  ELSE Returned([storeId |-> state.storeId, items |-> newItems], "new")

\* The validation of an UPDATE_QUANTITY payload: TRUE when rejected.
InvalidUpdatePayload(productId, quantity) ==
  \/ ~IsString(productId) \/ Falsy(productId)
  \/ ~IsNumber(quantity) \/ IsNaN(quantity)

\* Variant of ReduceUpdateQuantity: an update that finds no entry returns a
\* copy of the state, { ...state }, instead of the state itself.
ReduceUpdateQuantityCopying(state, action) ==
  LET productId == PayloadField(action, "productId")
      quantity == PayloadField(action, "quantity")
      integerQuantity == MathFloor(quantity)
      newItems == FilterOut(state.items, productId)
      existingItemIndex == FindIndex(state.items, productId)
  IN
  IF InvalidUpdatePayload(productId, quantity) THEN Returned(state, "state")
  ELSE IF LeqZero(integerQuantity)
  THEN IF Len(newItems) = 0
       THEN Returned(initialCartState, "initialCartState")
       ELSE Returned([storeId |-> state.storeId, items |-> newItems], "new")
  ELSE IF existingItemIndex >= 1
  THEN Returned([storeId |-> state.storeId,
                 items |-> [index \in 1..Len(state.items) |->
                    IF index = existingItemIndex
                    THEN WithQuantity(state.items[index], integerQuantity)
                    ELSE state.items[index]]], "new")
  ELSE Returned(state, "new")

\* Variant of ReduceUpdateQuantity: a quantity of 0 or less resets the whole
\* cart, whether or not other entries remain.
ReduceUpdateQuantityClearing(state, action) ==
  LET productId == PayloadField(action, "productId")
      quantity == PayloadField(action, "quantity")
      integerQuantity == MathFloor(quantity)
      existingItemIndex == FindIndex(state.items, productId)
  IN
  IF InvalidUpdatePayload(productId, quantity) THEN Returned(state, "state")
  ELSE IF LeqZero(integerQuantity)
  THEN Returned(initialCartState, "initialCartState")
  ELSE IF existingItemIndex >= 1
  THEN Returned([storeId |-> state.storeId,
                 items |-> [index \in 1..Len(state.items) |->
                    IF index = existingItemIndex
                    THEN WithQuantity(state.items[index], integerQuantity)
                    ELSE state.items[index]]], "new")
  ELSE Returned(state, "state")

\* Variant of ReduceUpdateQuantity: the quantity given is added to the
\* quantity of the entry instead of replacing it.
ReduceUpdateQuantityAdding(state, action) ==
  LET productId == PayloadField(action, "productId")
      quantity == PayloadField(action, "quantity")
      integerQuantity == MathFloor(quantity)
      newItems == FilterOut(state.items, productId)
      existingItemIndex == FindIndex(state.items, productId)
  IN
  IF InvalidUpdatePayload(productId, quantity) THEN Returned(state, "state")
  ELSE IF LeqZero(integerQuantity)
  THEN IF Len(newItems) = 0
       THEN Returned(initialCartState, "initialCartState")
       ELSE Returned([storeId |-> state.storeId, items |-> newItems], "new")
  ELSE IF existingItemIndex >= 1
  THEN Returned([storeId |-> state.storeId,
                 items |-> [index \in 1..Len(state.items) |->
                    IF index = existingItemIndex
                    THEN WithQuantity(state.items[index],
                           Plus(state.items[index].quantity, integerQuantity))
                    ELSE state.items[index]]], "new")
  ELSE Returned(state, "state")

ReduceUpdateQuantity(state, action) ==
  LET productId == PayloadField(action, "productId")
      quantity == PayloadField(action, "quantity")
      integerQuantity == MathFloor(quantity)
      newItems == FilterOut(state.items, productId)
      existingItemIndex == FindIndex(state.items, productId)
  IN
  IF InvalidUpdatePayload(productId, quantity) THEN Returned(state, "state")
  ELSE IF LeqZero(integerQuantity)
  THEN IF Len(newItems) = 0
       THEN Returned(initialCartState, "initialCartState")
       ELSE Returned([storeId |-> state.storeId, items |-> newItems], "new")
  ELSE IF existingItemIndex >= 1
  THEN Returned([storeId |-> state.storeId,
                 items |-> [index \in 1..Len(state.items) |->
                    IF index = existingItemIndex
                    THEN WithQuantity(state.items[index], integerQuantity)
                    ELSE state.items[index]]], "new")
  ELSE Returned(state, "state")

\* Variant of ReduceClearCart: the items are emptied, the storeId is kept.
ReduceClearCartKeepingStore(state, action) ==
  Returned([storeId |-> state.storeId, items |-> << >>], "new")

ReduceClearCart(state, action) ==
  Returned(initialCartState, "initialCartState")

\* Variant of cartReducer: the default branch returns the state.
cartReducerLenient(state, action) ==
  CASE action.type = "ADD_ITEM" -> ReduceAddItem(state, action)
    [] action.type = "REMOVE_ITEM" -> ReduceRemoveItem(state, action)
    [] action.type = "UPDATE_QUANTITY" -> ReduceUpdateQuantity(state, action)
    [] action.type = "CLEAR_CART" -> ReduceClearCart(state, action)
    [] OTHER -> Returned(state, "state")

cartReducer(state, action) ==
  CASE action.type = "ADD_ITEM" -> ReduceAddItem(state, action)
    [] action.type = "REMOVE_ITEM" -> ReduceRemoveItem(state, action)
    [] action.type = "UPDATE_QUANTITY" -> ReduceUpdateQuantity(state, action)
    [] action.type = "CLEAR_CART" -> ReduceClearCart(state, action)
    [] OTHER -> Thrown(state)

\* --------------------------------------------------------------- CartView
\* totalPrice of CartView: items.reduce((sum, item) => ..., 0), the first
\* upTo items folded.
RECURSIVE TotalPriceUpTo(_, _)
TotalPriceUpTo(items, upTo) ==
  IF upTo = 0 THEN Num(0)
  ELSE
    LET item == items[upTo]
        price == IF IsNumber(item.price) /\ ~IsNaN(item.price)
                 THEN item.price ELSE Num(0)
        quantity == IF IsNumber(item.quantity) /\ IsInteger(item.quantity)
                    THEN item.quantity ELSE Num(0)
    IN Plus(TotalPriceUpTo(items, upTo - 1), Times(price, quantity))
totalPrice(items) == TotalPriceUpTo(items, Len(items))

\* ------------------------------------------------------------ the heap
\* The reducer once more, on objects: the heap is the sequence of the
\* objects allocated so far and a reference is an index into it.  A state
\* object holds a storeId and a reference to an array; an array holds
\* references to item objects.  Spread, map, filter and the object and
\* array literals allocate; nothing else does.
StateObject(storeId, items) ==
  [kind |-> "state", storeId |-> storeId, items |-> items]
ArrayObject(elems) == [kind |-> "array", elems |-> elems]
\* { ...item, quantity: q }
ItemObject(item, q) ==
  [kind |-> "item", productId |-> item.productId, name |-> item.name,
   price |-> item.price, quantity |-> q]

\* const initialCartState = { storeId: null, items: [] }
initialCartStateRef == 1
InitialHeap == << StateObject(Null, 2), ArrayObject(<< >>) >>

\* state.items, as references and as the objects they refer to
ItemRefs(h, st) == h[h[st].items].elems
ItemObjects(h, st) ==
  [i \in 1..Len(ItemRefs(h, st)) |-> h[ItemRefs(h, st)[i]]]
\* state.items.filter((item) => item.productId !== productId)
FilterOutRefs(h, st, productId) ==
  SelectSeq(ItemRefs(h, st), LAMBDA r : h[r].productId # productId)

\* The result of a reducer call on the heap: the heap after the call, the
\* reference returned, and whether the call threw instead.
HeapReturned(h, ref) == [heap |-> h, ref |-> ref, threw |-> FALSE]

\* Variant of HeapAddItem: the increment is done on the entry itself
\* (cartItem.quantity += 1; return cartItem) inside the map.
HeapAddItemInPlace(h, st, action) ==
  LET item == PayloadItem(action)
      storeId == PayloadField(action, "storeId")
      n == Len(h)
  IN
  IF InvalidAddPayload(item, storeId) THEN HeapReturned(h, st)
  ELSE IF h[st].storeId # Null /\ h[st].storeId # storeId
  THEN HeapReturned(h \o << ItemObject(item, Int2Num(1)),
                            ArrayObject(<< n + 1 >>),
                            StateObject(storeId, n + 2) >>, n + 3)
  ELSE
    LET newStoreId == IF h[st].storeId = Null THEN storeId ELSE h[st].storeId
        existingItemIndex == FindIndex(ItemObjects(h, st), item.productId)
        old == ItemRefs(h, st)
    IN
    IF existingItemIndex >= 1
    THEN HeapReturned(
           [h EXCEPT ![old[existingItemIndex]].quantity = PlusOne(@)]
             \o << ArrayObject(old), StateObject(newStoreId, n + 1) >>,
           n + 2)
    ELSE HeapReturned(h \o << ItemObject(item, Int2Num(1)),
                              ArrayObject(Append(old, n + 1)),
                              StateObject(newStoreId, n + 2) >>, n + 3)

HeapAddItem(h, st, action) ==
  LET item == PayloadItem(action)
      storeId == PayloadField(action, "storeId")
      n == Len(h)
  IN
  IF InvalidAddPayload(item, storeId) THEN HeapReturned(h, st)
  ELSE IF h[st].storeId # Null /\ h[st].storeId # storeId
  THEN HeapReturned(h \o << ItemObject(item, Int2Num(1)),
                            ArrayObject(<< n + 1 >>),
                            StateObject(storeId, n + 2) >>, n + 3)
  ELSE
    LET newStoreId == IF h[st].storeId = Null THEN storeId ELSE h[st].storeId
        existingItemIndex == FindIndex(ItemObjects(h, st), item.productId)
        old == ItemRefs(h, st)
    IN
    IF existingItemIndex >= 1
    THEN HeapReturned(
           h \o << ItemObject(h[old[existingItemIndex]],
                              PlusOne(h[old[existingItemIndex]].quantity)),
                   ArrayObject([index \in 1..Len(old) |->
                                  IF index = existingItemIndex
                                  THEN n + 1 ELSE old[index]]),
                   StateObject(newStoreId, n + 2) >>,
           n + 3)
    ELSE HeapReturned(h \o << ItemObject(item, Int2Num(1)),
                              ArrayObject(Append(old, n + 1)),
                              StateObject(newStoreId, n + 2) >>, n + 3)

\* The filter and what follows it, shared by REMOVE_ITEM and the removal
\* branch of UPDATE_QUANTITY.
HeapFilterAndReturn(h, st, productId) ==
  LET n == Len(h)
      newItems == FilterOutRefs(h, st, productId)
  IN
  IF Len(newItems) = 0
  THEN HeapReturned(h \o << ArrayObject(newItems) >>, initialCartStateRef)
  ELSE HeapReturned(h \o << ArrayObject(newItems),
                            StateObject(h[st].storeId, n + 1) >>, n + 2)

HeapRemoveItem(h, st, action) ==
  LET productId == PayloadField(action, "productId") IN
  IF InvalidRemovePayload(productId) THEN HeapReturned(h, st)
  ELSE HeapFilterAndReturn(h, st, productId)

HeapUpdateQuantity(h, st, action) ==
  LET productId == PayloadField(action, "productId")
      quantity == PayloadField(action, "quantity")
      integerQuantity == MathFloor(quantity)
      existingItemIndex == FindIndex(ItemObjects(h, st), productId)
      old == ItemRefs(h, st)
      n == Len(h)
  IN
  IF InvalidUpdatePayload(productId, quantity) THEN HeapReturned(h, st)
  ELSE IF LeqZero(integerQuantity)
  THEN HeapFilterAndReturn(h, st, productId)
  ELSE IF existingItemIndex >= 1
  THEN HeapReturned(
         h \o << ItemObject(h[old[existingItemIndex]], integerQuantity),
                 ArrayObject([index \in 1..Len(old) |->
                                IF index = existingItemIndex
                                THEN n + 1 ELSE old[index]]),
                 StateObject(h[st].storeId, n + 2) >>,
         n + 3)
  ELSE HeapReturned(h, st)

HeapClearCart(h, st, action) == HeapReturned(h, initialCartStateRef)

heapReducer(h, st, action) ==
  CASE action.type = "ADD_ITEM" -> HeapAddItem(h, st, action)
    [] action.type = "REMOVE_ITEM" -> HeapRemoveItem(h, st, action)
    [] action.type = "UPDATE_QUANTITY" -> HeapUpdateQuantity(h, st, action)
    [] action.type = "CLEAR_CART" -> HeapClearCart(h, st, action)
    [] OTHER -> [heap |-> h, ref |-> st, threw |-> TRUE]

\* The cart a state object stands for: its storeId and the records of its
\* items, in order.
CartValue(h, st) ==
  [storeId |-> h[st].storeId,
   items |-> [i \in 1..Len(ItemRefs(h, st)) |->
                [productId |-> h[ItemRefs(h, st)[i]].productId,
                 name |-> h[ItemRefs(h, st)[i]].name,
                 price |-> h[ItemRefs(h, st)[i]].price,
                 quantity |-> h[ItemRefs(h, st)[i]].quantity]]]

\* ---------------------------------------------------- checkout: payload
\* The fields of the checkout form are sequences of characters.
\* value.trim(): leading and trailing blanks removed.
RECURSIVE TrimLeft(_)
TrimLeft(chars) ==
  IF chars # << >> /\ Head(chars) = " " THEN TrimLeft(Tail(chars)) ELSE chars
RECURSIVE TrimRight(_)
TrimRight(chars) ==
  IF chars # << >> /\ chars[Len(chars)] = " "
  THEN TrimRight(SubSeq(chars, 1, Len(chars) - 1)) ELSE chars
Trim(chars) == TrimRight(TrimLeft(chars))

\* /^[6-9]\d{9}$/.test(value)
Digits == {"0", "1", "2", "3", "4", "5", "6", "7", "8", "9"}
IsIndianMobile(chars) ==
  /\ Len(chars) = 10
  /\ chars[1] \in {"6", "7", "8", "9"}
  /\ \A i \in 2..10 : chars[i] \in Digits

\* The validate rules of useForm: form.onSubmit calls handleSubmit only
\* when all of them pass.
FormValid(values) ==
  /\ Len(Trim(values.name)) > 0
  /\ IsIndianMobile(values.phone)
  /\ Len(Trim(values.address)) > 0

\* (item) => ({ productId, name, price, quantity })
OrderItem(item) ==
  [productId |-> item.productId, name |-> item.name,
   price |-> item.price, quantity |-> item.quantity]

\* Variant of BuildOrder: every item is sent with quantity 1.
BuildOrderUnitQuantity(values, cart) ==
  [storeId |-> cart.storeId,
   customerDetails |-> [name |-> Trim(values.name),
                        phone |-> Trim(values.phone),
                        address |-> Trim(values.address)],
   items |-> [i \in 1..Len(cart.items) |->
                [OrderItem(cart.items[i]) EXCEPT !.quantity = Int2Num(1)]]]

\* orderData of handleSubmit, built from the form values and the items and
\* storeId the handler read from the cart context.
BuildOrder(values, cart) ==
  [storeId |-> cart.storeId,
   customerDetails |-> [name |-> Trim(values.name),
                        phone |-> Trim(values.phone),
                        address |-> Trim(values.address)],
   items |-> [i \in 1..Len(cart.items) |-> OrderItem(cart.items[i])]]

NoOrder == [storeId |-> Undefined,
            customerDetails |-> [name |-> << >>, phone |-> << >>,
                                 address |-> << >>],
            items |-> << >>]

\* The validation of createOrder before the request is posted: TRUE when it
\* throws.  (orderData is an object, customerDetails an object of strings
\* and items an array in every call the form makes.)
CreateOrderRejects(orderData) ==
  \/ ~IsString(orderData.storeId) \/ Falsy(orderData.storeId)
  \/ orderData.customerDetails.name = << >>
  \/ orderData.customerDetails.phone = << >>
  \/ orderData.customerDetails.address = << >>
  \/ Len(orderData.items) = 0
  \/ \E i \in 1..Len(orderData.items) :
       LET item == orderData.items[i] IN
       \/ ~IsString(item.productId) \/ Falsy(item.productId)
       \/ ~IsString(item.name) \/ Falsy(item.name)
       \/ ~IsNumber(item.price) \/ IsNaN(item.price)
       \/ LessThanZero(item.price)
       \/ ~IsNumber(item.quantity) \/ ~IsInteger(item.quantity)
       \/ item.quantity.h < 2

\* ------------------------------------------------ backend: error handler
\* An error object: its name, the statusCode, status and isOperational it
\* may carry, its message and stack (sequences of fragments), and what the
\* Mongoose errors hold besides (path and value of a CastError, the
\* messages of the errors of a ValidationError).
ErrorObject(name, message) ==
  [name |-> name, statusCode |-> Undefined, status |-> Undefined,
   isOperational |-> FALSE, message |-> message,
   stack |-> << name, ": " >> \o message \o << " at ..." >>,
   path |-> "", value |-> "", errors |-> << >>]

\* `${statusCode}`.startsWith('4')
RECURSIVE FirstDigit(_)
FirstDigit(n) == IF n < 10 THEN n ELSE FirstDigit(n \div 10)

\* new AppError(message, statusCode)
AppError(message, statusCode) ==
  [ErrorObject("Error", message) EXCEPT
     !.statusCode = Int2Num(statusCode),
     !.status = IF FirstDigit(statusCode) = 4 THEN Str("fail")
                ELSE Str("error"),
     !.isOperational = TRUE]

\* errors.join('. ')
RECURSIVE Join(_)
Join(errors) ==
  IF Len(errors) = 0 THEN << >>
  ELSE IF Len(errors) = 1 THEN << errors[1] >>
  ELSE << errors[1], ". " >> \o Join(Tail(errors))

handleCastErrorDB(err) ==
  AppError(<< "Invalid ", err.path, ": ", err.value,
              ". Please provide a valid ID format." >>, 400)

handleValidationErrorDB(err) ==
  AppError(<< "Invalid input data: " >> \o Join(err.errors), 400)

\* The response: res.status(...).json({...}).  keys are the properties of
\* the JSON body; a property that is not among them holds no value.
NoError == ErrorObject("", << >>)
Response(statusCode, status, message, keys, error, stack) ==
  [statusCode |-> statusCode, status |-> status, message |-> message,
   keys |-> keys, error |-> error, stack |-> stack]
NoResponse == Response(Undefined, Undefined, << >>, {}, NoError, << >>)

sendErrorDev(err) ==
  Response(IF Falsy(err.statusCode) THEN Int2Num(500) ELSE err.statusCode,
           IF Falsy(err.status) THEN Str("error") ELSE err.status,
           err.message, {"status", "error", "message", "stack"},
           err, err.stack)

GenericMessage == << "Something went wrong! Please try again later." >>

\* Variant of sendErrorProd: the message of every error is sent.
sendErrorProdVerbose(err) ==
  Response(err.statusCode, err.status, err.message, {"status", "message"},
           NoError, << >>)

sendErrorProd(err) ==
  IF err.isOperational
  THEN Response(err.statusCode, err.status, err.message,
                {"status", "message"}, NoError, << >>)
  ELSE Response(Int2Num(500), Str("error"), GenericMessage,
                {"status", "message"}, NoError, << >>)

\* if (error.name === 'CastError') ...; if (error.name === 'ValidationError') ...
ConvertDBError(err) ==
  LET error == IF err.name = "CastError" THEN handleCastErrorDB(err)
               ELSE err
  IN IF error.name = "ValidationError" THEN handleValidationErrorDB(error)
     ELSE error

\* globalErrorHandler(err, req, res, next) when process.env.NODE_ENV is env
globalErrorHandler(err0, env) ==
  LET err == [err0 EXCEPT
                !.statusCode = IF Falsy(@) THEN Int2Num(500) ELSE @,
                !.status = IF Falsy(@) THEN Str("error") ELSE @]
      nodeEnv == IF Falsy(env) THEN Str("development") ELSE env
  IN
  IF nodeEnv = Str("development") THEN sendErrorDev(err)
  ELSE IF nodeEnv = Str("production") THEN sendErrorProd(ConvertDBError(err))
  ELSE sendErrorProd(ConvertDBError(err))

\* ---------------------------------------------- backend: Order pre-save
\* this.items.reduce((acc, item) => ..., 0)
RECURSIVE OrderTotalUpTo(_, _)
OrderTotalUpTo(items, upTo) ==
  IF upTo = 0 THEN Num(0)
  ELSE
    LET item == items[upTo]
        price == IF IsNumber(item.price) /\ ~IsNaN(item.price)
                 THEN item.price ELSE Num(0)
        quantity == IF IsNumber(item.quantity) /\ IsInteger(item.quantity)
                    THEN item.quantity ELSE Num(0)
    IN Plus(OrderTotalUpTo(items, upTo - 1), Times(price, quantity))

\* orderSchema.pre('save'): the document after the hook
PreSave(doc) ==
  [doc EXCEPT !.totalAmount = OrderTotalUpTo(doc.items, Len(doc.items))]

\* ---------------------------------------------------------------- inputs
ProductIds == {"p1", "p2", "p3"}
StoreIds == {"storeA", "storeB"}

Item(productId, name, price) ==
  [defined |-> TRUE, productId |-> productId, name |-> name, price |-> price]

\* Well-formed items as ProductList.handleAddToCart builds them
\* ({ productId: _id, name, price }); p1 is listed under two names and
\* prices; the prices of p2 and p3 are the smallest and the largest number
\* that pass the validations, 0 and Infinity.
ValidItems ==
  { Item(Str("p1"), Str("Milk"), Int2Num(30)),
    Item(Str("p1"), Str("Amul Milk"), Int2Num(25)),
    Item(Str("p2"), Str("Soap"), Int2Num(0)),
    Item(Str("p3"), Str("Rice"), Infinity) }

\* Malformed items: each breaks one field of a well-formed item.
InvalidItems ==
  { NoItem,
    Item(Str(""), Str("Milk"), Int2Num(30)),
    Item(Int2Num(1), Str("Milk"), Int2Num(30)),
    Item(Undefined, Str("Milk"), Int2Num(30)),
    Item(Str("p1"), Str(""), Int2Num(30)),
    Item(Str("p1"), Undefined, Int2Num(30)),
    Item(Str("p1"), Str("Milk"), NaN),
    Item(Str("p1"), Str("Milk"), Num(-1)),
    Item(Str("p1"), Str("Milk"), NegInfinity),
    Item(Str("p1"), Str("Milk"), Str("30")),
    Item(Str("p1"), Str("Milk"), Undefined) }

ValidStoreIds == { Str(sid) : sid \in StoreIds }
InvalidStoreIds == { Str(""), Undefined, Null, Int2Num(7) }

ValidProductIds == { Str(pid) : pid \in ProductIds }
InvalidProductIds == { Str(""), Undefined, Int2Num(1) }

\* Quantities of type number that pass the validation: -5, -0.5, 0, 0.5, 1,
\* 1.5 and the two infinities.
NumericQuantities ==
  { Num(-10), Num(-1), Num(0), Num(1), Num(2), Num(3),
    Infinity, NegInfinity }
InvalidQuantities == { NaN, Undefined, Str("2") }

NoPayload == [item |-> NoItem, storeId |-> Undefined,
              productId |-> Undefined, quantity |-> Undefined]

AddAction(item, storeId) ==
  [type |-> "ADD_ITEM", hasPayload |-> TRUE,
   payload |-> [NoPayload EXCEPT !.item = item, !.storeId = storeId]]
RemoveAction(productId) ==
  [type |-> "REMOVE_ITEM", hasPayload |-> TRUE,
   payload |-> [NoPayload EXCEPT !.productId = productId]]
UpdateAction(productId, quantity) ==
  [type |-> "UPDATE_QUANTITY", hasPayload |-> TRUE,
   payload |-> [NoPayload EXCEPT !.productId = productId,
                                 !.quantity = quantity]]
ClearAction == [type |-> "CLEAR_CART", hasPayload |-> FALSE,
                payload |-> NoPayload]
\* An action object without a payload property
Bare(type) == [type |-> type, hasPayload |-> FALSE, payload |-> NoPayload]
NoAction == Bare("@@INIT")

AddInputs ==
  { AddAction(it, sid) : it \in ValidItems, sid \in ValidStoreIds }
  \cup { AddAction(it, Str("storeA")) : it \in InvalidItems }
  \cup { AddAction(Item(Str("p1"), Str("Milk"), Int2Num(30)), sid) :
            sid \in InvalidStoreIds }
  \cup { Bare("ADD_ITEM") }
RemoveInputs ==
  { RemoveAction(pid) : pid \in ValidProductIds \cup InvalidProductIds }
  \cup { Bare("REMOVE_ITEM") }
UpdateInputs ==
  { UpdateAction(pid, q) : pid \in ValidProductIds, q \in NumericQuantities }
  \cup { UpdateAction(Str("p1"), q) : q \in InvalidQuantities }
  \cup { UpdateAction(pid, Int2Num(2)) : pid \in InvalidProductIds }
  \cup { Bare("UPDATE_QUANTITY") }
ClearInputs ==
  { ClearAction, [ClearAction EXCEPT !.hasPayload = TRUE] }
\* Actions whose type is none of the four the reducer handles: another
\* name, a misspelt one (with an otherwise valid payload), the empty string.
ActionTypes == {"ADD_ITEM", "REMOVE_ITEM", "UPDATE_QUANTITY", "CLEAR_CART"}
UnknownInputs ==
  { Bare("RESET_CART"), Bare(""),
    [AddAction(Item(Str("p2"), Str("Soap"), Int2Num(10)), Str("storeA"))
       EXCEPT !.type = "add_item"] }

\* What the user types into the checkout form: well-formed details with and
\* without surrounding blanks, a blank name, a phone number that does not
\* start with 6-9.
Phone == << "9", "8", "7", "6", "5", "4", "3", "2", "1", "0" >>
FormValues ==
  { [name |-> << "A", "n", "u" >>, phone |-> Phone,
     address |-> << "M", "G", " ", "R", "d" >>],
    [name |-> << " ", "A", "n", "u", " " >>, phone |-> Phone,
     address |-> << "M", "G", " ", "R", "d", " " >>],
    [name |-> << " " >>, phone |-> Phone,
     address |-> << "M", "G", " ", "R", "d" >>],
    [name |-> << "A", "n", "u" >>, phone |-> << "1" >> \o Tail(Phone),
     address |-> << "M", "G", " ", "R", "d" >>] }

\* The cart actions a user takes on the checkout page and the store pages
\* while an order is being placed.
CheckoutCartInputs ==
  { AddAction(Item(Str("p1"), Str("Milk"), Int2Num(30)), Str("storeA")),
    AddAction(Item(Str("p2"), Str("Soap"), Int2Num(0)), Str("storeA")),
    AddAction(Item(Str("p2"), Str("Soap"), Int2Num(0)), Str("storeB")),
    RemoveAction(Str("p1")),
    UpdateAction(Str("p1"), Infinity),
    UpdateAction(Str("p2"), Int2Num(0)) }

\* The errors that reach the error handler: AppErrors of the controllers,
\* Mongoose CastErrors and ValidationErrors, programming errors, and the
\* errors of express.json() for a malformed or oversized body (which carry
\* a numeric statusCode and status).
CastError(path, value) ==
  [ErrorObject("CastError",
               << "Cast to ObjectId failed for value ", value >>)
     EXCEPT !.path = path, !.value = value]
ValidationError(errors) ==
  [ErrorObject("ValidationError",
               << "Order validation failed: " >> \o errors)
     EXCEPT !.errors = errors]
AppErrorCodes == {400, 401, 403, 404, 409, 422, 500, 503}
ErrorInputs ==
  { AppError(<< "The request could not be served" >>, code) :
      code \in AppErrorCodes }
  \cup { CastError(path, value) :
            path \in {"_id", "storeId"}, value \in {"abc", "12"} }
  \cup { ValidationError(<< "Quantity must be at least 1" >>),
         ValidationError(<< "Customer name is required",
                            "Price cannot be negative" >>),
         ValidationError(<< "Order must contain at least one item" >>) }
  \cup { ErrorObject("TypeError",
                     << "Cannot read properties of undefined" >>),
         ErrorObject("ReferenceError", << "order is not defined" >>),
         [ErrorObject("SyntaxError", << "Unexpected token } in JSON" >>)
            EXCEPT !.statusCode = Int2Num(400), !.status = Int2Num(400)],
         [ErrorObject("PayloadTooLargeError", << "request entity too large" >>)
            EXCEPT !.statusCode = Int2Num(413), !.status = Int2Num(413)] }

\* process.env.NODE_ENV: unset, empty, and the values operators give it
NodeEnvs == { Undefined, Str(""), Str("development"), Str("production"),
              Str("test"), Str("staging") }

\* The items of an order document: prices and quantities as a client may
\* send them (1e999 in a JSON body is read as Infinity).
MaxOrderItems == 2
OrderPrices == { Int2Num(30), Infinity, Str("30") }
OrderQuantities == { Int2Num(1), Int2Num(2), Num(3) }
OrderItems ==
  { [productId |-> Str("p1"), name |-> Str("Milk"), price |-> p,
     quantity |-> q] : p \in OrderPrices, q \in OrderQuantities }
OrderDoc(items, totalAmount) == [items |-> items, totalAmount |-> totalAmount]
OrderDocs ==
  { OrderDoc(items, totalAmount) :
      items \in UNION { [1..n -> OrderItems] : n \in 0..MaxOrderItems },
      totalAmount \in { Undefined, Int2Num(999) } }
NoOrderDoc == OrderDoc(<< >>, Undefined)

NoCall == [action |-> NoAction, dispatched |-> FALSE]

\* The store page: the storeId values of the URL (two stores and a blank
\* one), and what the backend holds for each store.  Every product is a
\* product of one store.
UrlStoreIds == {"storeA", "storeB", " "}
\* !storeId || typeof storeId !== 'string' || storeId.trim().length === 0,
\* for the strings above
BlankStoreId(sid) == sid \in {"", " "}
Product(id, name, price) == [_id |-> id, name |-> name, price |-> price]
Catalogue(sid) ==
  IF sid = "storeA"
  THEN << Product(Str("p1"), Str("Milk"), Int2Num(30)),
          Product(Str("p3"), Str("Rice"), Infinity) >>
  ELSE << Product(Str("p2"), Str("Soap"), Int2Num(0)) >>
OwnerOf(productId) == IF productId = Str("p2") THEN "storeB" ELSE "storeA"
\* The outcomes of the two requests of one fetchData.
DetailsResults == {"store", "malformed", "rejected"}
ProductsResults == {"array", "notArray", "rejected"}

\* ----------------------------------------------------------------- state
VARIABLES
  isSubmitting,   \* CheckoutForm: useState(false)
  inFlight,       \* a POST /api/orders of the form awaits its response
  orderData,      \* the orderData the last handleSubmit built
  checkoutEvent,  \* history: what the checkout form did in the last step
                  \* ("none" when the last step was not the form's)
  orphans,        \* the number of requests awaiting their response
                  \* whose CheckoutForm has been unmounted
  settledOrder,   \* history: the orderData of the request of the mounted
                  \* form whose response the last step handled (NoOrder
                  \* when it handled none)
  state,          \* the CartState held by useReducer
  prevState,      \* history: the state the last action was applied to
  lastAction,     \* history: the last action dispatched
  lastResult,     \* history: what the reducer returned for it
  lastAddStoreId, \* history: storeId of the most recent accepted ADD_ITEM
  addRun          \* history: the run of consecutive well-formed ADD_ITEMs of
                  \* one productId and storeId that began on the empty cart
VARIABLES
  heap,           \* the objects allocated so far
  stateRef,       \* the reference to the current state object
  prevHeap,       \* history: the heap before the last reducer call
  prevStateRef    \* history: the state object passed to that call
VARIABLES
  nodeEnv,        \* process.env.NODE_ENV as the error handler last read it
  lastError,      \* history: the error last passed to the error handler
  response,       \* the response the error handler sent for it
  submittedOrder, \* history: the order document save() was last called on
  savedOrder      \* that document after the pre-save hook
VARIABLES
  urlStoreId,     \* StorePage: storeId of useParams()
  storeInfo,      \* StorePage: the _id of the store shown, or "" for null
  products,       \* StorePage: the product list
  isLoading,      \* StorePage: useState(true)
  error,          \* StorePage: an error is set
  fetching        \* per store, the fetchData runs awaiting their results
VARIABLES
  lastCall        \* history: the action the last call of a function of the
                  \* provider stood for, and whether it was dispatched

cartVars ==
  << state, prevState, lastAction, lastResult, lastAddStoreId, addRun >>
checkoutVars ==
  << isSubmitting, inFlight, orderData, checkoutEvent, orphans,
     settledOrder >>
heapVars == << heap, stateRef, prevHeap, prevStateRef >>
backendVars ==
  << nodeEnv, lastError, response, submittedOrder, savedOrder >>
providerVars == << lastCall >>
storeVars ==
  << urlStoreId, storeInfo, products, isLoading, error, fetching >>
vars == << cartVars, checkoutVars, heapVars, backendVars, providerVars,
          storeVars >>

\* An ADD_ITEM action that meets the preconditions of AddItem: item fields
\* well-typed, identifiers non-empty, price >= 0.
WellFormedAdd(action) ==
  /\ action.type = "ADD_ITEM"
  /\ action.hasPayload
  /\ action.payload.item.defined
  /\ action.payload.item.productId.t = "string"
  /\ action.payload.item.productId.s # ""
  /\ action.payload.item.name.t = "string"
  /\ action.payload.item.name.s # ""
  /\ action.payload.item.price.t = "number"
  /\ action.payload.item.price.s # "nan"
  /\ action.payload.item.price.h >= 0
  /\ action.payload.storeId.t = "string"
  /\ action.payload.storeId.s # ""

NoRun == [n |-> 0, productId |-> Undefined, storeId |-> Undefined]
\* The run after action is applied to the state st.
NextRun(run, st, action) ==
  IF ~WellFormedAdd(action) THEN NoRun
  ELSE IF st = initialCartState
  THEN [n |-> 1, productId |-> action.payload.item.productId,
        storeId |-> action.payload.storeId]
  ELSE IF /\ run.n >= 1
          /\ run.productId = action.payload.item.productId
          /\ run.storeId = action.payload.storeId
  THEN [run EXCEPT !.n = run.n + 1]
  ELSE NoRun

\* Every finite quantity of the cart is at most MaxQty.
WithinBound(st) ==
  \A i \in 1..Len(st.items) :
    st.items[i].quantity.s = "fin" => st.items[i].quantity.h <= 2 * MaxQty

\* useReducer(cartReducer, initialCartState)
Init ==
  /\ state = initialCartState
  /\ prevState = initialCartState
  /\ lastAction = NoAction
  /\ lastResult = Returned(initialCartState, "initialCartState")
  /\ lastAddStoreId = Null
  /\ addRun = NoRun
  /\ isSubmitting = FALSE
  /\ inFlight = FALSE
  /\ orderData = NoOrder
  /\ checkoutEvent = "none"
  /\ orphans = 0
  /\ settledOrder = NoOrder
  /\ heap = InitialHeap
  /\ stateRef = initialCartStateRef
  /\ prevHeap = InitialHeap
  /\ prevStateRef = initialCartStateRef
  /\ nodeEnv = Undefined
  /\ lastError = NoError
  /\ response = NoResponse
  /\ submittedOrder = NoOrderDoc
  /\ savedOrder = NoOrderDoc
  /\ lastCall = NoCall
  /\ urlStoreId = "storeA"
  /\ storeInfo = ""
  /\ products = << >>
  /\ isLoading = TRUE
  /\ error = FALSE
  /\ fetching = [sid \in UrlStoreIds |-> IF sid = "storeA" THEN 1 ELSE 0]

\* The reducer is run on the current state and its result becomes the
\* state; a call that throws produces no next state.
Reduce(action) ==
  LET result == cartReducer(state, action) IN
  /\ WithinBound(result.state)
  /\ NextRun(addRun, state, action).n <= MaxQty
  /\ addRun' = NextRun(addRun, state, action)
  /\ state' = IF result.threw THEN state ELSE result.state
  /\ prevState' = state
  /\ lastAction' = action
  /\ lastResult' = result
  /\ lastAddStoreId' =
       IF /\ action.type = "ADD_ITEM"
          /\ ~InvalidAddPayload(PayloadItem(action),
                                PayloadField(action, "storeId"))
       THEN PayloadField(action, "storeId")
       ELSE lastAddStoreId
  /\ UNCHANGED backendVars
  /\ UNCHANGED storeVars

\* dispatch(action) by a user of the cart context.
Dispatch(action) ==
  /\ Reduce(action)
  /\ checkoutEvent' = "none"
  /\ settledOrder' = NoOrder
  /\ UNCHANGED << isSubmitting, inFlight, orderData, orphans >>
  /\ UNCHANGED heapVars
  /\ UNCHANGED providerVars

AddItem == \E action \in AddInputs : Dispatch(action)
RemoveItem == \E action \in RemoveInputs : Dispatch(action)
UpdateQuantity == \E action \in UpdateInputs : Dispatch(action)
ClearCart == \E action \in ClearInputs : Dispatch(action)
\* dispatch of an action of a type the reducer does not handle
UnknownAction == \E action \in UnknownInputs : Dispatch(action)

Next == AddItem \/ RemoveItem \/ UpdateQuantity \/ ClearCart \/ UnknownAction

Spec == Init /\ [][Next]_vars

\* A step of the provider or of the checkout form that dispatches nothing.
NothingDispatched ==
  /\ prevState' = state
  /\ lastAction' = NoAction
  /\ lastResult' = Returned(state, "state")
  /\ UNCHANGED << state, lastAddStoreId, addRun >>
  /\ UNCHANGED heapVars
  /\ UNCHANGED backendVars
  /\ UNCHANGED storeVars

\* ------------------------------------------------ provider: functions
\* The checks of addItem, removeItem and updateQuantity before they
\* dispatch: TRUE when the function returns without dispatching.
\* Variant of addItemBlocks: the price test written as !item.price, which
\* also turns away a price of 0.
addItemBlocksFree(item, storeId) ==
  \/ ~item.defined
  \/ ~IsString(item.productId)
  \/ ~IsString(item.name)
  \/ Falsy(item.price) \/ ~IsNumber(item.price)
  \/ ~IsString(storeId) \/ Falsy(storeId)
  \/ LessThanZero(item.price)
addItemBlocks(item, storeId) ==
  \/ ~item.defined
  \/ ~IsString(item.productId)
  \/ ~IsString(item.name)
  \/ ~IsNumber(item.price)
  \/ ~IsString(storeId) \/ Falsy(storeId)
  \/ LessThanZero(item.price)
removeItemBlocks(productId) ==
  ~IsString(productId) \/ Falsy(productId)
updateQuantityBlocks(productId, quantity) ==
  \/ ~IsString(productId) \/ Falsy(productId)
  \/ ~IsNumber(quantity) \/ IsNaN(quantity)

\* A call of a function of the provider with the arguments of action: it
\* returns early or dispatches the action.
Call(action, blocked) ==
  /\ lastCall' = [action |-> action, dispatched |-> ~blocked]
  /\ IF blocked THEN NothingDispatched
     ELSE Reduce(action) /\ UNCHANGED heapVars
  /\ checkoutEvent' = "none"
  /\ settledOrder' = NoOrder
  /\ UNCHANGED << isSubmitting, inFlight, orderData, orphans >>

addItem ==
  \E action \in { a \in AddInputs : a.hasPayload } :
    Call(action, addItemBlocks(action.payload.item, action.payload.storeId))
removeItem ==
  \E action \in { a \in RemoveInputs : a.hasPayload } :
    Call(action, removeItemBlocks(action.payload.productId))
updateQuantity ==
  \E action \in { a \in UpdateInputs : a.hasPayload } :
    Call(action, updateQuantityBlocks(action.payload.productId,
                                      action.payload.quantity))
clearCart == Call(ClearAction, FALSE)

NextProvider == addItem \/ removeItem \/ updateQuantity \/ clearCart

ProviderSpec == Init /\ [][NextProvider]_vars

\* ---------------------------------------------------- store page: steps
InFlight == fetching["storeA"] + fetching["storeB"] + fetching[" "]

\* The storeId of the URL changes while the page is shown: the effect runs
\* fetchData up to its await.
ChangeStore ==
  \E sid \in UrlStoreIds :
    /\ sid # urlStoreId
    /\ urlStoreId' = sid
    /\ storeInfo' = ""
    /\ products' = << >>
    /\ IF BlankStoreId(sid)
       THEN /\ error' = TRUE
            /\ isLoading' = FALSE
            /\ UNCHANGED fetching
       ELSE /\ InFlight < MaxFetches
            /\ isLoading' = TRUE
            /\ error' = FALSE
            /\ fetching' = [fetching EXCEPT ![sid] = @ + 1]
    /\ UNCHANGED << cartVars, checkoutVars, heapVars, backendVars,
                    providerVars >>

\* Promise.allSettled resolves for a fetchData started for sid: the rest
\* of fetchData runs, whatever the URL is by now.
FetchSettled ==
  \E sid \in UrlStoreIds, details \in DetailsResults,
     prods \in ProductsResults :
    /\ fetching[sid] > 0
    /\ fetching' = [fetching EXCEPT ![sid] = @ - 1]
    /\ storeInfo' = IF details = "store" THEN sid ELSE ""
    /\ products' = IF prods = "array" THEN Catalogue(sid) ELSE << >>
    /\ error' = IF details # "store" \/ prods = "rejected" THEN TRUE
                ELSE error
    /\ isLoading' = FALSE
    /\ UNCHANGED urlStoreId
    /\ UNCHANGED << cartVars, checkoutVars, heapVars, backendVars,
                    providerVars >>

\* handleAddToCart(product) for a product of the list shown.
AddToCart ==
  \E i \in 1..Len(products) :
    LET product == products[i]
        item == Item(product._id, product.name, product.price)
    IN
    /\ ~isLoading
    /\ ~error
    /\ ~( \/ ~IsString(product._id) \/ Falsy(product._id)
          \/ ~IsString(product.name) \/ Falsy(product.name)
          \/ ~IsNumber(product.price) \/ IsNaN(product.price)
          \/ LessThanZero(product.price) )
    /\ urlStoreId # ""
    /\ Call(AddAction(item, Str(urlStoreId)),
            addItemBlocks(item, Str(urlStoreId)))

NextStore == ChangeStore \/ FetchSettled \/ AddToCart

StoreSpec == Init /\ [][NextStore]_vars

\* ------------------------------------------------------ checkout: steps
\* handleSubmit up to its await: the cart check, setIsSubmitting(true), the
\* orderData, and createOrder up to the POST.  A createOrder that throws in
\* its validation is caught before any other event is handled, so that
\* outcome is part of the same step.  The loading Button and the
\* LoadingOverlay keep the form from being submitted while isSubmitting.
SubmitOrder ==
  \E values \in FormValues :
    /\ FormValid(values)
    /\ ~isSubmitting
    /\ NothingDispatched
    /\ UNCHANGED providerVars
    /\ UNCHANGED orphans
    /\ settledOrder' = NoOrder
    /\ IF Len(state.items) = 0 \/ Falsy(state.storeId)
       THEN /\ checkoutEvent' = "blocked"
            /\ UNCHANGED << isSubmitting, inFlight, orderData >>
       ELSE /\ orderData' = BuildOrder(values, state)
            /\ IF CreateOrderRejects(BuildOrder(values, state))
               THEN /\ checkoutEvent' = "invalid"
                    /\ isSubmitting' = FALSE
                    /\ inFlight' = FALSE
               ELSE /\ checkoutEvent' = "sent"
                    /\ isSubmitting' = TRUE
                    /\ inFlight' = TRUE

\* The POST resolves: clearCart(), then finally setIsSubmitting(false).
OrderSucceeded ==
  /\ inFlight
  /\ Reduce(ClearAction)
  /\ UNCHANGED heapVars
  /\ UNCHANGED providerVars
  /\ checkoutEvent' = "succeeded"
  /\ isSubmitting' = FALSE
  /\ inFlight' = FALSE
  /\ settledOrder' = orderData
  /\ UNCHANGED << orderData, orphans >>

\* Variant of OrderFailed: clearCart() is called in the finally block.
OrderFailedClearing ==
  /\ inFlight
  /\ Reduce(ClearAction)
  /\ UNCHANGED heapVars
  /\ UNCHANGED providerVars
  /\ checkoutEvent' = "failed"
  /\ isSubmitting' = FALSE
  /\ inFlight' = FALSE
  /\ settledOrder' = orderData
  /\ UNCHANGED << orderData, orphans >>

\* The POST rejects (network error or error response): the catch block
\* notifies, then finally setIsSubmitting(false).
OrderFailed ==
  /\ inFlight
  /\ NothingDispatched
  /\ UNCHANGED providerVars
  /\ checkoutEvent' = "failed"
  /\ isSubmitting' = FALSE
  /\ inFlight' = FALSE
  /\ settledOrder' = orderData
  /\ UNCHANGED << orderData, orphans >>

\* A cart action of the user while the checkout page is in use.
CartEdit == \E action \in CheckoutCartInputs : Dispatch(action)

\* The CheckoutForm is unmounted and a new one mounted: the user leaves the
\* checkout page and comes back, or the cart is emptied (CheckoutPage then
\* renders no form) and filled again.  The new form starts with
\* useState(false); a request of the old one stays outstanding.
RemountForm ==
  /\ orphans + (IF inFlight THEN 1 ELSE 0) <= MaxOrphans
  /\ orphans' = IF inFlight THEN orphans + 1 ELSE orphans
  /\ inFlight' = FALSE
  /\ isSubmitting' = FALSE
  /\ checkoutEvent' = "remounted"
  /\ settledOrder' = NoOrder
  /\ UNCHANGED orderData
  /\ NothingDispatched
  /\ UNCHANGED providerVars

\* The POST of an unmounted form resolves: its handler still calls
\* clearCart(); its setIsSubmitting(false) has no effect.
OrphanSucceeded ==
  /\ orphans > 0
  /\ Reduce(ClearAction)
  /\ UNCHANGED heapVars
  /\ UNCHANGED providerVars
  /\ checkoutEvent' = "orphanSucceeded"
  /\ settledOrder' = NoOrder
  /\ orphans' = orphans - 1
  /\ UNCHANGED << isSubmitting, inFlight, orderData >>

\* The POST of an unmounted form rejects.
OrphanFailed ==
  /\ orphans > 0
  /\ NothingDispatched
  /\ UNCHANGED providerVars
  /\ checkoutEvent' = "orphanFailed"
  /\ settledOrder' = NoOrder
  /\ orphans' = orphans - 1
  /\ UNCHANGED << isSubmitting, inFlight, orderData >>

NextCheckout ==
  \/ CartEdit \/ SubmitOrder \/ OrderSucceeded \/ OrderFailed
  \/ RemountForm \/ OrphanSucceeded \/ OrphanFailed

CheckoutSpec == Init /\ [][NextCheckout]_vars

\* --------------------------------------------------------- heap: steps
\* The actions dispatched while the objects are followed: adds that append,
\* increment and switch store, removals and updates of entries present and
\* absent, a clear, a malformed payload and an unknown type.
HeapInputs ==
  { AddAction(Item(Str("p1"), Str("Milk"), Int2Num(30)), Str("storeA")),
    AddAction(Item(Str("p2"), Str("Soap"), Int2Num(0)), Str("storeA")),
    AddAction(Item(Str("p1"), Str("Milk"), Int2Num(30)), Str("storeB")),
    AddAction(Item(Str("p1"), Str("Milk"), Int2Num(30)), Null),
    RemoveAction(Str("p1")),
    RemoveAction(Str("p3")),
    UpdateAction(Str("p1"), Int2Num(2)),
    UpdateAction(Str("p2"), Int2Num(0)),
    UpdateAction(Str("p3"), Int2Num(1)),
    ClearAction,
    Bare("RESET_CART") }

\* dispatch(action), on the values and on the objects at once.
HeapDispatch(action) ==
  LET result == heapReducer(heap, stateRef, action) IN
  /\ Len(result.heap) <= MaxHeap
  /\ Reduce(action)
  /\ heap' = result.heap
  /\ stateRef' = IF result.threw THEN stateRef ELSE result.ref
  /\ prevHeap' = heap
  /\ prevStateRef' = stateRef
  /\ checkoutEvent' = "none"
  /\ settledOrder' = NoOrder
  /\ UNCHANGED << isSubmitting, inFlight, orderData, orphans >>
  /\ UNCHANGED providerVars

ReducerCall == \E action \in HeapInputs : HeapDispatch(action)

HeapSpec == Init /\ [][ReducerCall]_vars


\* ------------------------------------------------------- shape of states
TypeOK ==
  /\ state.storeId \in ValidStoreIds \cup {Null}
  /\ \A i \in 1..Len(state.items) :
       /\ state.items[i].productId \in ValidProductIds
       /\ IsNumber(state.items[i].quantity)

\* ---------------------------------------------- vocabulary of the claims
\* A non-empty string, as the action contracts require of identifiers.
NonEmptyString(v) == v.t = "string" /\ v.s # ""
\* A number that is not NaN and not below zero.
NonNegativeNumber(v) == v.t = "number" /\ v.s # "nan" /\ v.h >= 0

\* The last action was an AddItem whose payload meets the preconditions of
\* AddItem: item fields well-typed, price >= 0, storeId non-empty.
LastWasValidAdd ==
  /\ lastAction.type = "ADD_ITEM"
  /\ lastAction.hasPayload
  /\ lastAction.payload.item.defined
  /\ NonEmptyString(lastAction.payload.item.productId)
  /\ NonEmptyString(lastAction.payload.item.name)
  /\ NonNegativeNumber(lastAction.payload.item.price)
  /\ NonEmptyString(lastAction.payload.storeId)

\* The last action was a RemoveItem with a non-empty productId.
LastWasValidRemove ==
  /\ lastAction.type = "REMOVE_ITEM"
  /\ lastAction.hasPayload
  /\ NonEmptyString(lastAction.payload.productId)

\* The last action was an UpdateQuantity with a non-empty productId and a
\* quantity that is a number other than NaN.
LastWasValidUpdate ==
  /\ lastAction.type = "UPDATE_QUANTITY"
  /\ lastAction.hasPayload
  /\ NonEmptyString(lastAction.payload.productId)
  /\ lastAction.payload.quantity.t = "number"
  /\ lastAction.payload.quantity.s # "nan"

\* floor(q) <= 0 for a number q counted in halves: q < 1, or q = -Infinity.
FloorIsNotPositive(q) == (q.s = "fin" /\ q.h < 2) \/ (q.s = "inf" /\ q.h < 0)
\* floor(q) > 0: q >= 1, or q = +Infinity.
FloorIsPositive(q) == (q.s = "fin" /\ q.h >= 2) \/ (q.s = "inf" /\ q.h > 0)
\* n is floor(q): for a finite q the integer n with n <= q < n + 1, for an
\* infinite q the same infinity.
IsFloorOf(n, q) ==
  IF q.s = "fin"
  THEN n.t = "number" /\ n.s = "fin" /\ n.h % 2 = 0
       /\ n.h <= q.h /\ q.h < n.h + 2
  ELSE n = q

\* The fields of a cart entry that the program has.
CartItem(entry) ==
  [productId |-> entry.productId, name |-> entry.name,
   price |-> entry.price, quantity |-> entry.quantity]

\* The positions of the entries of items with the given productId.
Positions(items, productId) ==
  { i \in 1..Len(items) : items[i].productId = productId }
InCart(items, productId) == Positions(items, productId) # {}

\* items without its k-th entry, the others in their order.
WithoutEntry(items, k) ==
  SubSeq(items, 1, k - 1) \o SubSeq(items, k + 1, Len(items))

\* ------------------------------------------------------------------ C1
\* C1: in every reachable state, storeId is null if and only if items is
\* empty.
StoreIdNullIffEmpty ==
  (state.storeId = Null) <=> (state.items = << >>)

\* A cart of several items of which a RemoveItem took the last one away,
\* and a cart that a RemoveItem emptied.
StoreIdNullIffEmptyWitness ==
  /\ LastWasValidRemove
  /\ Len(prevState.items) = 1
  /\ InCart(prevState.items, lastAction.payload.productId)
  /\ state.items = << >>
  /\ state.storeId = Null

\* ------------------------------------------------------------------ C2
\* C2: in every reachable state with a non-empty cart, storeId is the
\* storeId of the most recent accepted AddItem, and every entry of the cart
\* was built by an AddItem that carried that storeId.
SingleStore ==
  state.items # << >> =>
    /\ state.storeId = lastAddStoreId
    /\ \A i \in 1..Len(state.items) : state.items[i].addedBy = state.storeId

\* A store switch has just replaced a cart of two or more items.
SingleStoreWitness ==
  /\ LastWasValidAdd
  /\ Len(prevState.items) >= 2
  /\ prevState.storeId # lastAction.payload.storeId
  /\ state.storeId = lastAction.payload.storeId
  /\ state.items # << >>

\* ------------------------------------------------------------------ C3
\* C3: AddItem(item, storeY) with a valid payload on a state whose storeId
\* is non-null and differs from storeY yields exactly
\* {storeId: storeY, items: [item with quantity 1]}, whatever the previous
\* items were.
StoreSwitchReplaces ==
  ( /\ LastWasValidAdd
    /\ prevState.storeId # Null
    /\ prevState.storeId # lastAction.payload.storeId )
  =>
  /\ state.storeId = lastAction.payload.storeId
  /\ Len(state.items) = 1
  /\ CartItem(state.items[1]) =
       [productId |-> lastAction.payload.item.productId,
        name |-> lastAction.payload.item.name,
        price |-> lastAction.payload.item.price,
        quantity |-> Num(2)]

\* A store switch on a cart of several items that held the same productId
\* with a quantity above 1.
StoreSwitchReplacesWitness ==
  /\ LastWasValidAdd
  /\ prevState.storeId # Null
  /\ prevState.storeId # lastAction.payload.storeId
  /\ Len(prevState.items) >= 2
  /\ \E i \in Positions(prevState.items, lastAction.payload.item.productId) :
       prevState.items[i].quantity # Num(2)
  /\ Len(state.items) = 1

\* ------------------------------------------------------------------ C4
\* new is old increased by exactly 1.
IncreasedByOne(old, new) ==
  old.s = "fin" /\ new.s = "fin" /\ new.h = old.h + 2

\* C4: AddItem with a valid payload on an empty cart or a cart of the same
\* store: an existing entry with that productId has its quantity increased
\* by exactly 1, its position, every other entry and the order unchanged;
\* otherwise an entry with quantity 1 is appended and the existing entries
\* are unchanged.  storeId is the incoming one when the cart was empty and
\* unchanged otherwise.
AddMergesOrAppends ==
  ( /\ LastWasValidAdd
    /\ prevState.storeId \in {Null, lastAction.payload.storeId} )
  =>
  LET item == lastAction.payload.item
      old == prevState.items
      new == state.items
  IN
  /\ state.storeId = IF prevState.storeId = Null
                     THEN lastAction.payload.storeId
                     ELSE prevState.storeId
  /\ IF InCart(old, item.productId)
     THEN /\ Len(new) = Len(old)
          /\ \A i \in 1..Len(old) :
               IF old[i].productId = item.productId
               THEN /\ IncreasedByOne(old[i].quantity, new[i].quantity)
                    /\ [new[i] EXCEPT !.quantity = old[i].quantity] = old[i]
               ELSE new[i] = old[i]
     ELSE /\ Len(new) = Len(old) + 1
          /\ SubSeq(new, 1, Len(old)) = old
          /\ CartItem(new[Len(new)]) =
               [productId |-> item.productId, name |-> item.name,
                price |-> item.price, quantity |-> Num(2)]

\* ------------------------------------------------------------------ C5
\* C5: in every reachable state, no two entries of items have the same
\* productId.
ProductIdUnique ==
  \A i, j \in 1..Len(state.items) :
    state.items[i].productId = state.items[j].productId => i = j

\* An AddItem has named a productId that a cart of several items held.
ProductIdUniqueWitness ==
  /\ LastWasValidAdd
  /\ prevState.storeId = lastAction.payload.storeId
  /\ Len(prevState.items) >= 2
  /\ InCart(prevState.items, lastAction.payload.item.productId)
  /\ Len(state.items) = Len(prevState.items)
  /\ state # prevState

\* ------------------------------------------------------------------ C6
\* C6: in every reachable state, every item of the cart has an integer
\* quantity >= 1, for any sequence of actions.
QuantityPositiveInteger ==
  \A i \in 1..Len(state.items) :
    /\ state.items[i].quantity.t = "number"
    /\ state.items[i].quantity.s = "fin"
    /\ state.items[i].quantity.h % 2 = 0
    /\ state.items[i].quantity.h >= 2

\* ------------------------------------------------------------------ C7
\* C7: RemoveItem(productId) with a valid productId removes the entry with
\* that productId and keeps the remaining entries in their order; if no
\* entry remains the result is exactly the initial empty state, otherwise
\* storeId is unchanged.
RemoveItemRemoves ==
  LastWasValidRemove =>
  LET at == Positions(prevState.items, lastAction.payload.productId) IN
  /\ \A k \in at : state.items = WithoutEntry(prevState.items, k)
  /\ at = {} => state.items = prevState.items
  /\ IF state.items = << >>
     THEN state = [storeId |-> Null, items |-> << >>]
     ELSE state.storeId = prevState.storeId

\* A RemoveItem took the middle entry out of a cart of three.
RemoveItemRemovesWitness ==
  /\ LastWasValidRemove
  /\ Len(prevState.items) = 3
  /\ prevState.items[2].productId = lastAction.payload.productId
  /\ state.items = << prevState.items[1], prevState.items[3] >>
  /\ state.storeId = prevState.storeId

\* ------------------------------------------------------------------ C8
\* C8: for every reachable state and every valid productId,
\* UpdateQuantity(productId, q) with floor(q) <= 0 produces the same state
\* as RemoveItem(productId), the reset to the empty state included.
UpdateNonPositiveIsRemove ==
  ( LastWasValidUpdate /\ FloorIsNotPositive(lastAction.payload.quantity) )
  =>
  LET removed ==
        cartReducer(prevState, RemoveAction(lastAction.payload.productId))
  IN /\ state = removed.state
     /\ lastResult.threw = removed.threw

\* UpdateQuantity(productId, 0) on a cart that holds only productId.
UpdateNonPositiveIsRemoveWitness ==
  /\ LastWasValidUpdate
  /\ lastAction.payload.quantity = Num(0)
  /\ Len(prevState.items) = 1
  /\ InCart(prevState.items, lastAction.payload.productId)
  /\ state = initialCartState

\* ------------------------------------------------------------------ C9
\* C9: UpdateQuantity(productId, q) with floor(q) > 0 on a cart containing
\* productId sets that item's quantity to floor(q) and leaves its position,
\* its other fields, every other item and storeId unchanged.
UpdateSetsQuantity ==
  ( /\ LastWasValidUpdate
    /\ FloorIsPositive(lastAction.payload.quantity)
    /\ InCart(prevState.items, lastAction.payload.productId) )
  =>
  LET old == prevState.items
      new == state.items
  IN
  /\ state.storeId = prevState.storeId
  /\ Len(new) = Len(old)
  /\ \A i \in 1..Len(old) :
       IF old[i].productId = lastAction.payload.productId
       THEN /\ IsFloorOf(new[i].quantity, lastAction.payload.quantity)
            /\ [new[i] EXCEPT !.quantity = old[i].quantity] = old[i]
       ELSE new[i] = old[i]

\* UpdateQuantity(productId, 1.5) set the quantity of the second of three
\* entries from 2 to 1.
UpdateSetsQuantityWitness ==
  /\ LastWasValidUpdate
  /\ lastAction.payload.quantity = Num(3)
  /\ Len(prevState.items) = 3
  /\ prevState.items[2].productId = lastAction.payload.productId
  /\ prevState.items[2].quantity = Num(4)
  /\ state.items[2].quantity = Num(2)

\* ----------------------------------------------------------------- C10
\* C10: RemoveItem and UpdateQuantity (with any numeric quantity) on a
\* productId that is not in the cart leave storeId and items unchanged, in
\* every reachable state, and raise no error.
AbsentIdIsNoOp ==
  ( /\ lastAction.type \in {"REMOVE_ITEM", "UPDATE_QUANTITY"}
    /\ lastAction.hasPayload
    /\ NonEmptyString(lastAction.payload.productId)
    /\ lastAction.type = "UPDATE_QUANTITY" =>
         lastAction.payload.quantity.t = "number"
    /\ ~InCart(prevState.items, lastAction.payload.productId) )
  =>
  /\ state.storeId = prevState.storeId
  /\ state.items = prevState.items
  /\ ~lastResult.threw

\* UpdateQuantity with a positive quantity and RemoveItem, each on a
\* productId that a populated cart does not hold.
AbsentIdIsNoOpWitness ==
  /\ lastAction.type \in {"REMOVE_ITEM", "UPDATE_QUANTITY"}
  /\ lastAction.hasPayload
  /\ NonEmptyString(lastAction.payload.productId)
  /\ lastAction.type = "UPDATE_QUANTITY" =>
       FloorIsPositive(lastAction.payload.quantity)
  /\ prevState.items # << >>
  /\ ~InCart(prevState.items, lastAction.payload.productId)
  /\ state = prevState

\* ----------------------------------------------------------------- C11
\* The last action was RemoveItem or UpdateQuantity with a positive
\* quantity, naming a productId the cart lacks, on a cart that has items.
LastWasAbsentIdOnPopulatedCart(type) ==
  /\ lastAction.type = type
  /\ lastAction.hasPayload
  /\ NonEmptyString(lastAction.payload.productId)
  /\ ~InCart(prevState.items, lastAction.payload.productId)
  /\ prevState.items # << >>
  /\ type = "UPDATE_QUANTITY" =>
       ( /\ lastAction.payload.quantity.t = "number"
         /\ FloorIsPositive(lastAction.payload.quantity) )

\* C11 as stated: on a cart that has other items, UpdateQuantity and
\* RemoveItem of an absent productId both return the very same state object
\* that was passed in.
AbsentIdReturnsSameObject ==
  ( \/ LastWasAbsentIdOnPopulatedCart("UPDATE_QUANTITY")
    \/ LastWasAbsentIdOnPopulatedCart("REMOVE_ITEM") )
  => lastResult.ref = "state"

\* C11 as amended: UpdateQuantity with a positive quantity of an absent
\* productId returns the very same state object; RemoveItem of an absent
\* productId returns a newly built object with the same storeId and equal
\* items.
AbsentIdSameObjectForUpdateOnly ==
  /\ LastWasAbsentIdOnPopulatedCart("UPDATE_QUANTITY") =>
       lastResult.ref = "state" /\ state = prevState
  /\ LastWasAbsentIdOnPopulatedCart("REMOVE_ITEM") =>
       lastResult.ref = "new" /\ state = prevState

\* UpdateQuantity("p3", 1.5) on a cart of two items without p3.
AbsentIdSameObjectForUpdateOnlyWitness ==
  /\ LastWasAbsentIdOnPopulatedCart("UPDATE_QUANTITY")
  /\ lastAction.payload.quantity = Num(3)
  /\ Len(prevState.items) = 2
  /\ lastResult.ref = "state"

\* ----------------------------------------------------------------- C12
\* The payload of the last action is malformed: missing, or with a missing,
\* non-string or empty productId, name or storeId, a non-numeric, NaN or
\* negative price, a non-numeric or NaN quantity.
LastPayloadMalformed ==
  \/ /\ lastAction.type = "ADD_ITEM"
     /\ \/ ~lastAction.hasPayload
        \/ ~lastAction.payload.item.defined
        \/ ~NonEmptyString(lastAction.payload.item.productId)
        \/ ~NonEmptyString(lastAction.payload.item.name)
        \/ ~NonNegativeNumber(lastAction.payload.item.price)
        \/ ~NonEmptyString(lastAction.payload.storeId)
  \/ /\ lastAction.type = "REMOVE_ITEM"
     /\ \/ ~lastAction.hasPayload
        \/ ~NonEmptyString(lastAction.payload.productId)
  \/ /\ lastAction.type = "UPDATE_QUANTITY"
     /\ \/ ~lastAction.hasPayload
        \/ ~NonEmptyString(lastAction.payload.productId)
        \/ lastAction.payload.quantity.t # "number"
        \/ lastAction.payload.quantity.s = "nan"

\* C12: an Add, Remove or UpdateQuantity action with a malformed payload
\* returns the state unchanged and never throws, in every reachable state.
MalformedPayloadRejected ==
  LastPayloadMalformed =>
    /\ state = prevState
    /\ lastResult.state = prevState
    /\ ~lastResult.threw

\* An AddItem with a negative price on a cart of another store, which a
\* well-formed payload would have replaced.
MalformedPayloadRejectedWitness ==
  /\ lastAction.type = "ADD_ITEM"
  /\ lastAction.hasPayload
  /\ lastAction.payload.item.price = Num(-1)
  /\ prevState.storeId = Str("storeB")
  /\ Len(prevState.items) = 2
  /\ state = prevState

\* ----------------------------------------------------------------- C13
\* C13: an action whose type is outside {ADD_ITEM, REMOVE_ITEM,
\* UPDATE_QUANTITY, CLEAR_CART} makes the reducer fail with an error in
\* every state; it produces no next state.
UnknownActionThrows ==
  ( lastAction # NoAction /\ lastAction.type \notin ActionTypes )
  => lastResult.threw /\ state = prevState

\* The misspelt type "add_item" with a valid payload, on a populated cart.
UnknownActionThrowsWitness ==
  /\ lastAction.type = "add_item"
  /\ prevState.items # << >>
  /\ lastResult.threw

\* ----------------------------------------------------------------- C16
\* C16: ClearCart applied to any reachable state, with or without a
\* payload, yields the initial empty state {storeId: null, items: []}.
ClearCartResets ==
  lastAction.type = "CLEAR_CART" =>
    state = [storeId |-> Null, items |-> << >>]

\* A ClearCart that carried a payload emptied a cart of three items.
ClearCartResetsWitness ==
  /\ lastAction.type = "CLEAR_CART"
  /\ lastAction.hasPayload
  /\ Len(prevState.items) = 3
  /\ state.items = << >>

\* ----------------------------------------------------------------- C17
Empty(st) == st.storeId = Null /\ st.items = << >>
Populated(st) == st.storeId # Null /\ st.items # << >>

\* C17: an accepted AddItem always ends in Populated; a Populated cart
\* becomes Empty only by ClearCart or by a RemoveItem / UpdateQuantity(<= 0)
\* that targets its only item; RemoveItem, UpdateQuantity and ClearCart
\* applied to Empty stay in Empty.
TransitionsAsListed ==
  /\ Empty(state) \/ Populated(state)
  /\ LastWasValidAdd => Populated(state)
  /\ ( Populated(prevState) /\ Empty(state) ) =>
       \/ lastAction.type = "CLEAR_CART"
       \/ /\ \/ LastWasValidRemove
             \/ /\ LastWasValidUpdate
                /\ FloorIsNotPositive(lastAction.payload.quantity)
          /\ Len(prevState.items) = 1
          /\ prevState.items[1].productId = lastAction.payload.productId
  /\ ( /\ Empty(prevState)
       /\ lastAction.type \in {"REMOVE_ITEM", "UPDATE_QUANTITY", "CLEAR_CART"} )
     => Empty(state)

\* UpdateQuantity(productId, -0.5) emptied a cart whose only item it named.
TransitionsAsListedWitness ==
  /\ LastWasValidUpdate
  /\ lastAction.payload.quantity = Num(-1)
  /\ Populated(prevState)
  /\ Len(prevState.items) = 1
  /\ Empty(state)

\* ----------------------------------------------------------------- C14
\* What an item adds to the Total: price x quantity, and 0 when its price is
\* not a number or its quantity is not an integer.
Contribution(item) ==
  IF /\ item.price.t = "number" /\ item.price.s # "nan"
     /\ item.quantity.t = "number" /\ item.quantity.s = "fin"
     /\ item.quantity.h % 2 = 0
  THEN IF item.price.s = "inf" THEN item.price
       ELSE Num(item.price.h * (item.quantity.h \div 2))
  ELSE Num(0)
\* The sum of the contributions: infinite when one of them is, otherwise
\* the sum of the finite ones.
RECURSIVE FiniteSum(_, _)
FiniteSum(items, upTo) ==
  IF upTo = 0 THEN 0
  ELSE FiniteSum(items, upTo - 1) + Contribution(items[upTo]).h
SumOfContributions(items) ==
  IF \E i \in 1..Len(items) : Contribution(items[i]).s = "inf"
  THEN Infinity
  ELSE Num(FiniteSum(items, Len(items)))

\* C14: for every reachable cart state, the Total shown by the cart view
\* equals the sum over items of price x quantity and is non-negative; an
\* item whose price is not a number or whose quantity is not an integer
\* contributes 0 to the sum.
TotalIsSum ==
  /\ totalPrice(state.items) = SumOfContributions(state.items)
  /\ NonNegativeNumber(totalPrice(state.items))

\* ----------------------------------------------------------------- C15
\* C15: starting from the empty cart, N >= 1 consecutive valid AddItem
\* actions with the same productId and the same storeId yield a cart with
\* exactly one item whose quantity is N.
RepeatedAddCounts ==
  addRun.n >= 1 =>
    /\ Len(state.items) = 1
    /\ state.items[1].productId = addRun.productId
    /\ state.items[1].quantity = Num(2 * addRun.n)
    /\ state.storeId = addRun.storeId

\* MaxQty consecutive AddItems of p1 at storeB, after the cart had been
\* populated and emptied before.
RepeatedAddCountsWitness ==
  /\ addRun.n = MaxQty
  /\ addRun.productId = Str("p1")
  /\ addRun.storeId = Str("storeB")
  /\ state.items[1].quantity = Num(2 * MaxQty)

\* ----------------------------------------------------------------- C18
\* C18: for every order submission of the checkout form: if the request
\* succeeds, ClearCart is invoked afterwards; if it fails (client-side
\* validation error, network error or server error), ClearCart is not
\* invoked and the cart is left as it was.
ClearCartOnlyOnSuccess ==
  /\ checkoutEvent \in {"succeeded", "orphanSucceeded"} =>
       lastAction.type = "CLEAR_CART" /\ state.items = << >>
  /\ checkoutEvent \in {"invalid", "failed", "orphanFailed"} =>
       lastAction.type # "CLEAR_CART" /\ state = prevState

\* A request failed while the cart held items, and they are still there.
ClearCartOnlyOnSuccessWitness ==
  /\ checkoutEvent = "failed"
  /\ orderData.items # << >>
  /\ Len(state.items) = 2
  /\ state = prevState

\* ----------------------------------------------------------------- C19
\* C19: every order payload sent by the checkout form carries the cart's
\* storeId and the cart's items in the same order, each mapped to
\* {productId, name, price, quantity}, as they were in the cart state the
\* submit handler read; no order request is issued when the cart is empty
\* or storeId is null.
OrderCarriesCart ==
  /\ checkoutEvent \in {"sent", "invalid"} =>
       /\ orderData.storeId = state.storeId
       /\ Len(orderData.items) = Len(state.items)
       /\ \A i \in 1..Len(state.items) :
            orderData.items[i] = CartItem(state.items[i])
  /\ checkoutEvent = "sent" => inFlight
  /\ ( checkoutEvent \in {"sent", "invalid", "blocked"}
       /\ (state.items = << >> \/ state.storeId = Null) )
     => ~inFlight /\ checkoutEvent = "blocked"

\* A request was sent for a cart of two items, one with quantity 2.
OrderCarriesCartWitness ==
  /\ checkoutEvent = "sent"
  /\ inFlight
  /\ Len(state.items) = 2
  /\ \E i \in 1..2 : state.items[i].quantity = Int2Num(2)
  /\ Len(orderData.items) = 2

\* ------------------------------------------------------- backend: steps
\* An error reaches the error handler while NODE_ENV is env.
HandleError ==
  \E err \in ErrorInputs, env \in NodeEnvs :
    /\ nodeEnv' = env
    /\ lastError' = err
    /\ response' = globalErrorHandler(err, env)
    /\ UNCHANGED << submittedOrder, savedOrder >>
    /\ UNCHANGED << cartVars, checkoutVars, heapVars, providerVars >>
    /\ UNCHANGED storeVars

\* save() is called on an order document: the pre-save hook runs.
SaveOrder ==
  \E doc \in OrderDocs :
    /\ submittedOrder' = doc
    /\ savedOrder' = PreSave(doc)
    /\ UNCHANGED << nodeEnv, lastError, response >>
    /\ UNCHANGED << cartVars, checkoutVars, heapVars, providerVars >>
    /\ UNCHANGED storeVars

ErrorSpec == Init /\ [][HandleError]_vars

OrderSpec == Init /\ [][SaveOrder]_vars

\* The state object stands for the state of the reducer on values.
HeapAgrees ==
  /\ CartValue(heap, stateRef).storeId = state.storeId
  /\ Len(CartValue(heap, stateRef).items) = Len(state.items)
  /\ \A i \in 1..Len(state.items) :
       CartValue(heap, stateRef).items[i] = CartItem(state.items[i])
  /\ lastResult.ref = "state" => stateRef = prevStateRef
  /\ lastResult.ref = "initialCartState" => stateRef = initialCartStateRef
  /\ lastResult.ref = "new" => stateRef > Len(prevHeap)

\* ----------------------------------------------------------------- C20
\* C20: no reducer action modifies the state object, the items sequence or
\* the item records it was given: after any action every object that
\* existed before it is what it was, so the previous state (and the shared
\* initialCartState that REMOVE_ITEM, UPDATE_QUANTITY and CLEAR_CART
\* return) still has the storeId and the items it had.
PreviousStateIntact ==
  /\ Len(heap) >= Len(prevHeap)
  /\ \A ref \in 1..Len(prevHeap) : heap[ref] = prevHeap[ref]
  /\ CartValue(heap, prevStateRef) = CartValue(prevHeap, prevStateRef)
  /\ CartValue(heap, initialCartStateRef) = initialCartState

\* An ADD_ITEM has incremented an entry of a two-entry cart: the state
\* returned is a new object and the entry it changed is a new object too.
PreviousStateIntactWitness ==
  /\ lastAction.type = "ADD_ITEM"
  /\ stateRef > Len(prevHeap)
  /\ Len(ItemRefs(prevHeap, prevStateRef)) = 2
  /\ Len(ItemRefs(heap, stateRef)) = 2
  /\ \E i \in 1..2 :
       /\ ItemRefs(heap, stateRef)[i] > Len(prevHeap)
       /\ heap[ItemRefs(heap, stateRef)[i]].quantity = Int2Num(2)

\* ----------------------------------------------------------------- C21
\* C21: an error caused by invalid input data (a Mongoose ValidationError
\* or a CastError) that reaches the error handler is answered with status
\* 400, in every NODE_ENV setting.
InvalidInputIs400 ==
  lastError.name \in {"ValidationError", "CastError"} =>
    response.statusCode = Int2Num(400)

NotOperational(err) ==
  ~err.isOperational /\ err.name \notin {"CastError", "ValidationError"}
GenericResponse ==
  /\ response.statusCode = Int2Num(500)
  /\ response.message = GenericMessage
  /\ response.keys = {"status", "message"}
  /\ response.message # lastError.message
  /\ response.stack # lastError.stack
NonOperationalIsGeneric ==
  ( /\ lastError # NoError
    /\ NotOperational(lastError)
    /\ nodeEnv # Undefined
    /\ nodeEnv # Str("development") )
  => GenericResponse

\* The same with the empty NODE_ENV set aside: the handler reads it as
\* development.
NonOperationalIsGenericUnlessEmpty ==
  ( /\ lastError # NoError
    /\ NotOperational(lastError)
    /\ nodeEnv \notin {Undefined, Str(""), Str("development")} )
  => GenericResponse

\* A TypeError was handled under NODE_ENV=test.
NonOperationalIsGenericUnlessEmptyWitness ==
  /\ lastError.name = "TypeError"
  /\ nodeEnv = Str("test")
  /\ response.statusCode = Int2Num(500)

\* ----------------------------------------------------------------- C24
\* C24: for every argument combination, a call of addItem, removeItem or
\* updateQuantity changes the cart exactly as the corresponding action
\* dispatched straight to the reducer would: a call that returns early is
\* one whose action the reducer answers with the state it was given, and
\* a call whose action the reducer would act on is dispatched.
ReducedDirectly ==
  IF cartReducer(prevState, lastCall.action).threw THEN prevState
  ELSE cartReducer(prevState, lastCall.action).state
WrapperAsReducer ==
  lastCall # NoCall =>
    /\ state = ReducedDirectly
    /\ ~lastCall.dispatched =>
         /\ ReducedDirectly = prevState
         /\ cartReducer(prevState, lastCall.action).ref = "state"
    /\ lastCall.dispatched => lastAction = lastCall.action

\* addItem passed an item the reducer then turned away (an empty name), on
\* a populated cart; and the cart is what it was.
WrapperAsReducerWitness ==
  /\ lastCall.dispatched
  /\ lastCall.action.type = "ADD_ITEM"
  /\ lastCall.action.payload.item.name = Str("")
  /\ state.items # << >>
  /\ state = prevState

\* ----------------------------------------------------------------- C25
\* C25: when a valid AddItem names a productId already in the cart of the
\* same store, the entry keeps its stored name and price (and its place)
\* and nothing but its quantity changes, also when the incoming item has
\* another name or price for that productId.
AddKeepsNameAndPrice ==
  ( /\ LastWasValidAdd
    /\ prevState.storeId = lastAction.payload.storeId
    /\ InCart(prevState.items, lastAction.payload.item.productId) )
  =>
  /\ state.storeId = prevState.storeId
  /\ Len(state.items) = Len(prevState.items)
  /\ \A i \in 1..Len(prevState.items) :
       /\ state.items[i].productId = prevState.items[i].productId
       /\ state.items[i].name = prevState.items[i].name
       /\ state.items[i].price = prevState.items[i].price
       /\ prevState.items[i].productId # lastAction.payload.item.productId
            => state.items[i] = prevState.items[i]

\* "Amul Milk" at 25 was added to a cart that holds p1 as "Milk" at 30:
\* the entry is still "Milk" at 30, now with quantity 2.
AddKeepsNameAndPriceWitness ==
  /\ LastWasValidAdd
  /\ prevState.storeId = lastAction.payload.storeId
  /\ lastAction.payload.item = Item(Str("p1"), Str("Amul Milk"), Int2Num(25))
  /\ \E i \in 1..Len(state.items) :
       /\ state.items[i].productId = Str("p1")
       /\ state.items[i].name = Str("Milk")
       /\ state.items[i].price = Int2Num(30)
       /\ prevState.items[i].quantity = Int2Num(1)
       /\ state.items[i].quantity = Int2Num(2)

\* ----------------------------------------------------------------- C26
\* C26: every item added to the cart from the store page is a product of
\* the store whose id is passed as the storeId of the AddItem, also when
\* the storeId of the URL changes while the fetch for the previous store
\* is in flight and its response arrives after the change: the list shown
\* is never the list of another store.
AddedItemIsOfItsStore ==
  /\ ( lastCall.dispatched /\ lastCall.action.type = "ADD_ITEM" ) =>
       Str(OwnerOf(lastCall.action.payload.item.productId))
         = lastCall.action.payload.storeId
  /\ ( ~isLoading /\ ~error /\ products # << >> ) =>
       products = Catalogue(urlStoreId)

\* ----------------------------------------------------------------- C27
\* C27: when an order submission succeeds, the items the resulting
\* ClearCart discards are exactly the items sent in that order, also when
\* AddItem, RemoveItem or UpdateQuantity are applied to the cart between
\* the sending of the request and the arrival of its response.
ClearDiscardsWhatWasSent ==
  checkoutEvent = "succeeded" =>
    /\ Len(prevState.items) = Len(settledOrder.items)
    /\ \A i \in 1..Len(prevState.items) :
         CartItem(prevState.items[i]) = settledOrder.items[i]

\* ----------------------------------------------------------------- C28
\* C28: while one order submission of the checkout form is in flight, no
\* second order request is issued for the same cart: at most one
\* createOrder call is outstanding at any time.
Outstanding == orphans + (IF inFlight THEN 1 ELSE 0)
OneRequestOutstanding == Outstanding <= 1

\* ----------------------------------------------------------------- C29
\* C29: for every non-empty cart reachable through the reducer, the order
\* payload the checkout form builds passes the validation of createOrder
\* (non-empty productId and name, numeric price >= 0, integer quantity
\* >= 1, non-empty storeId and items): a reachable cart is never turned
\* away before the request is sent.
ReachableCartPassesValidation ==
  /\ checkoutEvent # "invalid"
  /\ state.items # << >> =>
       \A values \in { v \in FormValues : FormValid(v) } :
         ~CreateOrderRejects(BuildOrder(values, state))

\* ----------------------------------------------------------------- C30
\* C30: RemoveItem(p), UpdateQuantity(p, q) and ClearCart are idempotent:
\* for every reachable state and every payload, applying the same action
\* twice in a row yields the same state as applying it once.
Once(action) == cartReducer(state, action)
Twice(action) == cartReducer(Once(action).state, action)
RepeatableInputs == RemoveInputs \cup UpdateInputs \cup ClearInputs
RemoveUpdateClearIdempotent ==
  \A action \in RepeatableInputs :
    /\ ~Once(action).threw
    /\ ~Twice(action).threw
    /\ Twice(action).state = Once(action).state

\* An update has set the quantity of an entry to another value, another
\* entry is left in the cart, and removing the first, setting its
\* quantity once more and clearing the cart each change this state.
RemoveUpdateClearIdempotentWitness ==
  /\ lastAction \in UpdateInputs
  /\ ~lastResult.threw
  /\ state = lastResult.state
  /\ Len(state.items) = 2
  /\ Len(prevState.items) = 2
  /\ state # prevState
  /\ \E action \in RemoveInputs :
       Once(action).state \notin {state, initialCartState}
  /\ \E action \in UpdateInputs :
       /\ Len(Once(action).state.items) = 2
       /\ Once(action).state # state

====
